---- MODULE Spec2Model ----
(***************************************************************************)
(* The two scripts of local-bin: copy_cursor_rules.py (sync_rules) and     *)
(* setup_typescript_repo.py (copy_cursor_rules, copy_vscode_settings,      *)
(* copy_biome_settings).  The state is the part of the filesystem the      *)
(* scripts read and write, the position of the running process, its exit   *)
(* status and what it printed.  Every filesystem call may fail (an I/O     *)
(* fault of the environment); a failed copy2 may leave the destination     *)
(* file unchanged, truncated, or fully written (copystat failing last).    *)
(***************************************************************************)
EXTENDS Integers, Sequences, FiniteSets, TLC

\* How many times the script is run in succession in one behaviour.
MaxRuns == 2

\* ------------------------------------------------------------------ names
\* File names are sequences of characters, so that the glob is computed.
A_md  == <<"a", ".", "m", "d">>
B_md  == <<"b", ".", "m", "d">>
C_txt == <<"c", ".", "t", "x", "t">>
Old_md == <<"o", "l", "d", ".", "m", "d">>

\* Names that may occur in the source directory, and in .cursor/rules.
SrcNames == {A_md, B_md, C_txt}
DstNames == SrcNames \cup {Old_md}

Settings_json   == "settings.json"
Extensions_json == "extensions.json"
VscodeNames == {Settings_json, Extensions_json}

\* What a directory entry holds: nothing, a subdirectory, or a file content.
Absent  == "absent"
Dir     == "dir"
Old     == "old"
Partial == "partial"
Contents == {"v1", "v2"}

ScriptSync  == "copy_cursor_rules.py"
ScriptSetup == "setup_typescript_repo.py"

VARIABLES
    script,        \* which of the two scripts is run
    git,           \* Path('.git').is_dir()
    source_dir,    \* the rules source directory: [exists, entries]
    dotSettings,   \* ~/.local/share/dotfiles/.vscode-settings.json
    dotBiome,      \* ~/.local/share/dotfiles/biome.json
    rules,         \* cwd/.cursor/rules: [exists, files]
    vscode,        \* cwd/.vscode: [exists, files]
    biome,         \* cwd/biome.json
    pc,            \* position of the process
    exit_status,   \* -1 while running, then the process exit status
    pending,       \* matches of the glob not yet visited by the loop
    copied_files,  \* the loop's counter
    stdout,        \* lines printed to stdout
    stderr,        \* diagnostics printed to stderr
    run,           \* number of the current run
    pre,           \* the destination files as they were when the run began
    prev,          \* outcome of the previous run
    copied,        \* names the loop copied successfully in this run
    done,          \* steps of the script that completed in this run
    at,            \* the position at which the process exited
    fault          \* whether an I/O fault was injected in this run

vars == <<script, git, source_dir, dotSettings, dotBiome, rules, vscode, biome,
          pc, exit_status, pending, copied_files, stdout, stderr,
          run, pre, prev, copied, done, at, fault>>

env  == <<script, git, source_dir, dotSettings, dotBiome>>
hist == <<run, pre, prev>>

\* ---------------------------------------------------------------- helpers
NoDir(names)    == [exists |-> FALSE, files |-> [n \in names |-> Absent]]
EmptyDir(names) == [exists |-> TRUE,  files |-> [n \in names |-> Absent]]

IsFile(v) == v \notin {Absent, Dir}

\* Variant of Matches: the pattern '*', which matches every name.
MatchesAny(name) == Len(name) >= 0

\* source_dir.glob('*.md'): the pattern matches a name that ends in ".md".
SuffixMd == <<".", "m", "d">>
Matches(name) ==
    /\ Len(name) >= Len(SuffixMd)
    /\ SubSeq(name, Len(name) - Len(SuffixMd) + 1, Len(name)) = SuffixMd

Glob(d) == {n \in DOMAIN d.entries : d.entries[n] # Absent /\ Matches(n)}

\* Variant of Copy2: an existing destination file is kept, not overwritten.
Copy2NoOverwrite(srcVal, oldVal) ==
    IF ~IsFile(srcVal)
    THEN {[ok |-> FALSE, val |-> oldVal, env |-> FALSE]}
    ELSE {[ok |-> TRUE, val |-> IF oldVal = Absent THEN srcVal ELSE oldVal, env |-> FALSE]}
         \cup {[ok |-> FALSE, val |-> v, env |-> TRUE] : v \in {oldVal, Partial, srcVal}}

\* shutil.copy2(src, dst) with dst's parent present: the outcomes, given the
\* source entry and the destination file's value before the call.  A source
\* that is a directory cannot be opened, so the destination is not touched.
Copy2(srcVal, oldVal) ==
    IF ~IsFile(srcVal)
    THEN {[ok |-> FALSE, val |-> oldVal, env |-> FALSE]}
    ELSE {[ok |-> TRUE, val |-> srcVal, env |-> FALSE]}
         \cup {[ok |-> FALSE, val |-> v, env |-> TRUE] : v \in {oldVal, Partial, srcVal}}

\* Variant of Fatal: sys.exit() without an argument, which is status 0.
FatalExitZero(kind) ==
    /\ stderr' = Append(stderr, kind)
    /\ exit_status' = 0
    /\ at' = pc
    /\ pc' = "exited"

\* print(..., file=sys.stderr); sys.exit(1)
Fatal(kind) ==
    /\ stderr' = Append(stderr, kind)
    /\ exit_status' = 1
    /\ at' = pc
    /\ pc' = "exited"

\* An exception no handler catches: the interpreter prints the traceback and
\* the process ends with status 1.
Uncaught ==
    /\ stderr' = Append(stderr, "Traceback")
    /\ exit_status' = 1
    /\ at' = pc
    /\ pc' = "exited"

\* The last statement of the script returned: the process ends with status 0.
Finish ==
    /\ exit_status' = 0
    /\ at' = pc
    /\ pc' = "exited"

Snapshot == [rules |-> rules, vscode |-> vscode, biome |-> biome]

\* ------------------------------------------------------------------- Init
RulesInit ==
    {NoDir(DstNames)} \cup
    {[exists |-> TRUE,
      files |-> [n \in DstNames |-> IF n = A_md THEN a ELSE IF n = Old_md THEN o ELSE Absent]]
        : a \in {Absent, Old}, o \in {Absent, Old}}

VscodeInit ==
    {NoDir(VscodeNames)} \cup
    {[exists |-> TRUE,
      files |-> [n \in VscodeNames |-> IF n = Settings_json THEN s ELSE e]]
        : s \in {Absent, Old}, e \in {Absent, Old}}

SourceInit ==
    {[exists |-> FALSE, entries |-> [n \in SrcNames |-> Absent]]} \cup
    {[exists |-> TRUE, entries |-> e] : e \in [SrcNames -> {Absent, Dir} \cup Contents]}

Init ==
    /\ script \in {ScriptSync, ScriptSetup}
    /\ git \in BOOLEAN
    /\ source_dir \in SourceInit
    /\ rules \in RulesInit
    \* copy_cursor_rules.py never reads or writes the settings files
    /\ IF script = ScriptSetup
       THEN /\ dotSettings \in {Absent} \cup Contents
            /\ dotBiome \in {Absent} \cup Contents
            /\ vscode \in VscodeInit
            /\ biome \in {Absent, Old}
       ELSE /\ dotSettings = Absent
            /\ dotBiome = Absent
            /\ vscode = NoDir(VscodeNames)
            /\ biome = Absent
    /\ pc = "check_git_repo"
    /\ exit_status = -1
    /\ pending = {}
    /\ copied_files = 0
    /\ stdout = <<>>
    /\ stderr = <<>>
    /\ run = 1
    /\ pre = Snapshot
    /\ prev = [ran |-> FALSE, exit_status |-> -1, rules |-> rules, stdout |-> <<>>,
               done |-> {}]
    /\ copied = {}
    /\ done = {}
    /\ at = "none"
    /\ fault = FALSE

\* ---------------------------------------------------------------- actions
\* Variant of CheckGitRepo: the diagnostic is printed and the function returns.
CheckGitRepoWarnOnly ==
    /\ pc = "check_git_repo"
    /\ stderr' = IF ~git THEN Append(stderr, "NotARepository") ELSE stderr
    /\ pc' = "check_source"
    /\ UNCHANGED <<exit_status, at>>
    /\ UNCHANGED <<env, hist, rules, vscode, biome, pending, copied_files,
                   stdout, copied, done, fault>>

\* check_git_repo()
CheckGitRepo ==
    /\ pc = "check_git_repo"
    /\ IF ~git
       THEN Fatal("NotARepository")
       ELSE /\ pc' = "check_source"
            /\ UNCHANGED <<exit_status, stderr, at>>
    /\ UNCHANGED <<env, hist, rules, vscode, biome, pending, copied_files,
                   stdout, copied, done, fault>>

\* Variant of CheckSourceDir: the destination is removed before the source is
\* looked at.
CheckSourceDirLate ==
    /\ pc = "check_source"
    /\ rules' = NoDir(DstNames)
    /\ IF ~source_dir.exists
       THEN Fatal("SourceNotFound")
       ELSE /\ pc' = "replace_dest"
            /\ UNCHANGED <<exit_status, stderr, at>>
    /\ UNCHANGED <<env, hist, vscode, biome, pending, copied_files,
                   stdout, copied, done, fault>>

\* if not source_dir.is_dir(): ... sys.exit(1)
CheckSourceDir ==
    /\ pc = "check_source"
    /\ IF ~source_dir.exists
       THEN Fatal("SourceNotFound")
       ELSE /\ pc' = "replace_dest"
            /\ UNCHANGED <<exit_status, stderr, at>>
    /\ UNCHANGED <<env, hist, rules, vscode, biome, pending, copied_files,
                   stdout, copied, done, fault>>

\* Variant of ReplaceDest: no rmtree, so mkdir raises FileExistsError on a
\* destination that is already there.
ReplaceDestNoRmtree ==
    /\ pc = "replace_dest"
    /\ \/ /\ ~rules.exists
          /\ rules' = EmptyDir(DstNames)
          /\ pending' = Glob(source_dir)
          /\ copied_files' = 0
          /\ pc' = "copy_loop"
          /\ UNCHANGED <<exit_status, stderr, at, fault>>
       \/ /\ rules.exists
          /\ Uncaught
          /\ UNCHANGED <<rules, pending, copied_files, fault>>
       \/ /\ ~rules.exists
          /\ fault' = TRUE
          /\ Uncaught
          /\ UNCHANGED <<rules, pending, copied_files>>
    /\ UNCHANGED <<env, hist, vscode, biome, stdout, copied, done>>

\* if dest_dir.exists(): shutil.rmtree(dest_dir); dest_dir.mkdir(parents=True);
\* copied_files = 0.  Neither call is inside the try block.
ReplaceDest ==
    /\ pc = "replace_dest"
    /\ \/ \* both calls succeed
          /\ rules' = EmptyDir(DstNames)
          /\ pending' = Glob(source_dir)
          /\ copied_files' = 0
          /\ pc' = "copy_loop"
          /\ UNCHANGED <<exit_status, stderr, at, fault>>
       \/ \* rmtree fails part-way: some of the files are already deleted
          /\ rules.exists
          /\ \E keep \in SUBSET {n \in DstNames : rules.files[n] # Absent} :
                rules' = [rules EXCEPT !.files =
                            [n \in DstNames |-> IF n \in keep THEN rules.files[n] ELSE Absent]]
          /\ fault' = TRUE
          /\ Uncaught
          /\ UNCHANGED <<pending, copied_files>>
       \/ \* mkdir fails
          /\ rules' = NoDir(DstNames)
          /\ fault' = TRUE
          /\ Uncaught
          /\ UNCHANGED <<pending, copied_files>>
    /\ UNCHANGED <<env, hist, vscode, biome, stdout, copied, done>>

\* Variant of SyncRulesCopy: the handler is inside the loop and the loop goes
\* on with the next match after a failed copy.
SyncRulesCopyContinue ==
    /\ pc = "copy_loop"
    /\ script = ScriptSync
    /\ \E n \in pending :
         \E r \in Copy2(source_dir.entries[n], rules.files[n]) :
            /\ pending' = pending \ {n}
            /\ rules' = [rules EXCEPT !.files[n] = r.val]
            /\ fault' = (fault \/ r.env)
            /\ IF r.ok
               THEN /\ copied_files' = copied_files + 1
                    /\ stdout' = Append(stdout, [kind |-> "Copied", arg |-> n])
                    /\ copied' = copied \cup {n}
                    /\ UNCHANGED <<pc, exit_status, stderr, at>>
               ELSE /\ stderr' = Append(stderr, "CopyFailed")
                    /\ UNCHANGED <<pc, exit_status, at, copied_files, stdout, copied>>
    /\ UNCHANGED <<env, hist, vscode, biome, done>>

\* One iteration of the loop of sync_rules (copy_cursor_rules.py): the glob
\* yields the next match in directory order, which is arbitrary.
\*   shutil.copy2(src_path, dst_path); copied_files += 1; print("Copied: ...")
\* Any exception is caught by the handler, which exits with status 1.
SyncRulesCopy ==
    /\ pc = "copy_loop"
    /\ script = ScriptSync
    /\ \E n \in pending :
         \E r \in Copy2(source_dir.entries[n], rules.files[n]) :
            /\ pending' = pending \ {n}
            /\ rules' = [rules EXCEPT !.files[n] = r.val]
            /\ fault' = (fault \/ r.env)
            /\ IF r.ok
               THEN /\ copied_files' = copied_files + 1
                    /\ stdout' = Append(stdout, [kind |-> "Copied", arg |-> n])
                    /\ copied' = copied \cup {n}
                    /\ UNCHANGED <<pc, exit_status, stderr, at>>
               ELSE /\ Fatal("CopyFailed")
                    /\ UNCHANGED <<copied_files, stdout, copied>>
    /\ UNCHANGED <<env, hist, vscode, biome, done>>

\* One iteration of the loop of copy_cursor_rules (setup_typescript_repo.py):
\*   copy_file(src_path, dst_path); copied_files += 1
\* copy_file exits by sys.exit(1) when the match is not a file (SystemExit is
\* not an Exception, so the handler does not see it); an exception of copy2 is
\* caught by the handler, which exits with status 1.  No line is printed.
CopyCursorRulesCopy ==
    /\ pc = "copy_loop"
    /\ script = ScriptSetup
    /\ \E n \in pending :
         /\ pending' = pending \ {n}
         /\ IF ~IsFile(source_dir.entries[n])
            THEN /\ Fatal("SourceNotFound")
                 /\ UNCHANGED <<rules, fault, copied_files, copied>>
            ELSE \E r \in Copy2(source_dir.entries[n], rules.files[n]) :
                    /\ rules' = [rules EXCEPT !.files[n] = r.val]
                    /\ fault' = (fault \/ r.env)
                    /\ IF r.ok
                       THEN /\ copied_files' = copied_files + 1
                            /\ copied' = copied \cup {n}
                            /\ UNCHANGED <<pc, exit_status, stderr, at>>
                       ELSE /\ Fatal("CopyFailed")
                            /\ UNCHANGED <<copied_files, copied>>
    /\ UNCHANGED <<env, hist, vscode, biome, stdout, done>>

\* The loop is exhausted: print("Success: Copied {copied_files} rule files ...").
\* sync_rules is the whole of copy_cursor_rules.py; in setup_typescript_repo.py
\* copy_vscode_settings() follows.
ReportSuccess ==
    /\ pc = "copy_loop"
    /\ pending = {}
    /\ stdout' = Append(stdout, [kind |-> "Success", arg |-> copied_files])
    /\ done' = done \cup {"mirror"}
    /\ IF script = ScriptSync
       THEN Finish
       ELSE /\ pc' = "copy_vscode_settings"
            /\ UNCHANGED <<exit_status, at>>
    /\ UNCHANGED <<env, hist, rules, vscode, biome, pending, copied_files,
                   stderr, copied, fault>>

\* Variant of CopyVscodeSettings: a missing source is reported and the function
\* returns, so the script goes on to copy_biome_settings().
CopyVscodeSettingsNoExit ==
    /\ pc = "copy_vscode_settings"
    /\ IF ~IsFile(dotSettings)
       THEN /\ stderr' = Append(stderr, "SourceNotFound")
            /\ pc' = "copy_biome_settings"
            /\ UNCHANGED <<vscode, fault, stdout, done, exit_status, at>>
       ELSE IF ~vscode.exists
       THEN /\ Uncaught
            /\ UNCHANGED <<vscode, fault, stdout, done>>
       ELSE \E r \in Copy2(dotSettings, vscode.files[Settings_json]) :
               /\ vscode' = [vscode EXCEPT !.files[Settings_json] = r.val]
               /\ fault' = (fault \/ r.env)
               /\ IF r.ok
                  THEN /\ stdout' = Append(stdout, [kind |-> "SuccessVscode", arg |-> 0])
                       /\ done' = done \cup {"vscode"}
                       /\ pc' = "copy_biome_settings"
                       /\ UNCHANGED <<exit_status, stderr, at>>
                  ELSE /\ Uncaught
                       /\ UNCHANGED <<stdout, done>>
    /\ UNCHANGED <<env, hist, rules, biome, pending, copied_files, copied>>

\* Variant of CopyVscodeSettings: the destination's parent directory is
\* created when it is missing.
CopyVscodeSettingsMkdir ==
    /\ pc = "copy_vscode_settings"
    /\ IF ~IsFile(dotSettings)
       THEN /\ Fatal("SourceNotFound")
            /\ UNCHANGED <<vscode, fault, stdout, done>>
       ELSE \E r \in Copy2(dotSettings, vscode.files[Settings_json]) :
               /\ vscode' = [exists |-> TRUE,
                             files |-> [vscode.files EXCEPT ![Settings_json] = r.val]]
               /\ fault' = (fault \/ r.env)
               /\ IF r.ok
                  THEN /\ stdout' = Append(stdout, [kind |-> "SuccessVscode", arg |-> 0])
                       /\ done' = done \cup {"vscode"}
                       /\ pc' = "copy_biome_settings"
                       /\ UNCHANGED <<exit_status, stderr, at>>
                  ELSE /\ Uncaught
                       /\ UNCHANGED <<stdout, done>>
    /\ UNCHANGED <<env, hist, rules, biome, pending, copied_files, copied>>

\* copy_vscode_settings(): copy_file(.vscode-settings.json, .vscode/settings.json)
\* and a success line.  Nothing catches an exception of copy2 here.
CopyVscodeSettings ==
    /\ pc = "copy_vscode_settings"
    /\ IF ~IsFile(dotSettings)
       THEN /\ Fatal("SourceNotFound")
            /\ UNCHANGED <<vscode, fault, stdout, done>>
       ELSE IF ~vscode.exists
       THEN \* open(dst, 'wb') fails: the parent directory is missing
            /\ Uncaught
            /\ UNCHANGED <<vscode, fault, stdout, done>>
       ELSE \E r \in Copy2(dotSettings, vscode.files[Settings_json]) :
               /\ vscode' = [vscode EXCEPT !.files[Settings_json] = r.val]
               /\ fault' = (fault \/ r.env)
               /\ IF r.ok
                  THEN /\ stdout' = Append(stdout, [kind |-> "SuccessVscode", arg |-> 0])
                       /\ done' = done \cup {"vscode"}
                       /\ pc' = "copy_biome_settings"
                       /\ UNCHANGED <<exit_status, stderr, at>>
                  ELSE /\ Uncaught
                       /\ UNCHANGED <<stdout, done>>
    /\ UNCHANGED <<env, hist, rules, biome, pending, copied_files, copied>>

\* copy_biome_settings(): copy_file(biome.json, cwd/biome.json) and a success
\* line; it is the last statement of the script.
CopyBiomeSettings ==
    /\ pc = "copy_biome_settings"
    /\ IF ~IsFile(dotBiome)
       THEN /\ Fatal("SourceNotFound")
            /\ UNCHANGED <<biome, fault, stdout, done>>
       ELSE \E r \in Copy2(dotBiome, biome) :
               /\ biome' = r.val
               /\ fault' = (fault \/ r.env)
               /\ IF r.ok
                  THEN /\ stdout' = Append(stdout, [kind |-> "SuccessBiome", arg |-> 0])
                       /\ done' = done \cup {"biome"}
                       /\ Finish
                       /\ UNCHANGED stderr
                  ELSE /\ Uncaught
                       /\ UNCHANGED <<stdout, done>>
    /\ UNCHANGED <<env, hist, rules, vscode, pending, copied_files, copied>>

\* The process has ended and the same script is invoked again, in the same
\* working directory, with the sources as they are.
Rerun ==
    /\ pc = "exited"
    /\ run < MaxRuns
    /\ run' = run + 1
    /\ prev' = [ran |-> TRUE, exit_status |-> exit_status, rules |-> rules,
                stdout |-> stdout, done |-> done]
    /\ pre' = Snapshot
    /\ pc' = "check_git_repo"
    /\ exit_status' = -1
    /\ pending' = {}
    /\ copied_files' = 0
    /\ stdout' = <<>>
    /\ stderr' = <<>>
    /\ copied' = {}
    /\ done' = {}
    /\ at' = "none"
    /\ fault' = FALSE
    /\ UNCHANGED <<env, rules, vscode, biome>>

Next ==
    \/ CheckGitRepo
    \/ CheckSourceDir
    \/ ReplaceDest
    \/ SyncRulesCopy
    \/ CopyCursorRulesCopy
    \/ ReportSuccess
    \/ CopyVscodeSettings
    \/ CopyBiomeSettings
    \/ Rerun

Spec == Init /\ [][Next]_vars
\* ----------------------------------------------------------------- claims
Exited == pc = "exited"

\* The names of SrcNames that end in ".md", written out.
MdNames == {A_md, B_md}

\* The files a successful mirror must leave in .cursor/rules.
Mirrored ==
    [n \in DstNames |->
        IF n \in MdNames /\ source_dir.entries[n] # Absent
        THEN source_dir.entries[n] ELSE Absent]

DestFiles == {n \in DstNames : rules.files[n] # Absent}

AllSteps == IF script = ScriptSync THEN {"mirror"} ELSE {"mirror", "vscode", "biome"}

\* C1: in both scripts, with no .git directory the run ends with the
\* NotARepository diagnostic and exit status 1, at the guard, and at no point
\* of the run do .cursor/rules, .vscode or biome.json differ from what they
\* were when the run began.
C1_NoRepoNoMutation ==
    ~git =>
        /\ Snapshot = pre
        /\ pc \in {"check_git_repo", "exited"}
        /\ Exited => /\ exit_status = 1
                     /\ stderr = <<"NotARepository">>
                     /\ stdout = <<>>
                     /\ at = "check_git_repo"

C1_Witness ==
    /\ Exited /\ ~git /\ exit_status = 1
    /\ script = ScriptSetup
    /\ source_dir.exists /\ source_dir.entries[A_md] \in Contents
    /\ rules.exists /\ rules.files[Old_md] = Old
    /\ vscode.exists /\ vscode.files[Settings_json] = Old /\ IsFile(dotSettings)
    /\ biome = Old /\ IsFile(dotBiome)

\* C2: when the guard passes and the source directory does not exist, the run
\* ends with the SourceNotFound diagnostic and exit status 1 at the source
\* check, and .cursor/rules is never deleted, created or changed.
C2_MissingSourceKeepsDest ==
    (git /\ ~source_dir.exists) =>
        /\ Snapshot = pre
        /\ pc \in {"check_git_repo", "check_source", "exited"}
        /\ Exited => /\ exit_status = 1
                     /\ stderr = <<"SourceNotFound">>
                     /\ at = "check_source"

C2_Witness ==
    /\ Exited /\ git /\ ~source_dir.exists /\ exit_status = 1
    /\ rules.exists /\ rules.files[Old_md] = Old /\ rules.files[A_md] = Old

\* C3: once the mirror has succeeded, .cursor/rules exists and holds exactly
\* the source's *.md files, each with its source content; c.txt, old.md and
\* whatever else the destination held before are absent.
C3_MirrorExact ==
    "mirror" \in done =>
        /\ rules.exists
        /\ rules.files = Mirrored
        /\ Cardinality(DestFiles) =
               Cardinality({n \in MdNames : source_dir.entries[n] # Absent})

C3_Witness ==
    /\ "mirror" \in done
    /\ source_dir.entries[A_md] = "v1"
    /\ source_dir.entries[B_md] = "v2"
    /\ source_dir.entries[C_txt] = "v1"
    /\ pre.rules.exists /\ pre.rules.files[Old_md] = Old /\ pre.rules.files[A_md] = Old
    /\ DestFiles = {A_md, B_md}
    /\ rules.files[A_md] = "v1" /\ rules.files[B_md] = "v2"

\* The count reported by the "Success: Copied N rule files" line, -1 if none.
Reported(out) ==
    IF \E i \in DOMAIN out : out[i].kind = "Success"
    THEN out[CHOOSE i \in DOMAIN out : out[i].kind = "Success"].arg
    ELSE -1

ProgressLines(out) == {i \in DOMAIN out : out[i].kind = "Copied"}

\* C4: when the mirror succeeded in the previous run and the script is run
\* again with the source unchanged, the mirror of the second run succeeds
\* unless an I/O fault strikes, and once it has, .cursor/rules is exactly what
\* the previous run left and the reported count is the same.
C4_Idempotent ==
    (prev.ran /\ "mirror" \in prev.done) =>
        /\ (Exited /\ ~fault) => "mirror" \in done
        /\ "mirror" \in done =>
              /\ rules = prev.rules
              /\ Reported(stdout) = Reported(prev.stdout)
              /\ Reported(stdout) = Cardinality(DestFiles)
        /\ (Exited /\ ~fault /\ prev.exit_status = 0) => exit_status = 0

C4_Witness ==
    /\ run = 2 /\ Exited /\ exit_status = 0
    /\ prev.ran /\ prev.exit_status = 0
    /\ pre.rules = prev.rules
    /\ rules = prev.rules
    /\ DestFiles = {A_md, B_md}
    /\ Reported(stdout) = 2 /\ Reported(prev.stdout) = 2

\* C5: a step of copy_file that succeeds leaves the destination file with the
\* source file's content, whatever it held, and changes no other file:
\* .vscode/extensions.json, .cursor/rules and biome.json are untouched by the
\* settings copy, .vscode and .cursor/rules by the biome copy.
C5_SingleFileCopy ==
    [][ /\ (pc = "copy_vscode_settings" /\ pc' = "copy_biome_settings") =>
             /\ vscode'.exists
             /\ vscode'.files[Settings_json] = dotSettings
             /\ dotSettings \in Contents
             /\ vscode'.files[Extensions_json] = vscode.files[Extensions_json]
             /\ rules' = rules
             /\ biome' = biome
        /\ (pc = "copy_biome_settings" /\ exit_status' = 0) =>
             /\ biome' = dotBiome
             /\ dotBiome \in Contents
             /\ vscode' = vscode
             /\ rules' = rules
      ]_vars

C5_Witness ==
    /\ Exited /\ exit_status = 0 /\ script = ScriptSetup
    /\ pre.vscode.files[Settings_json] = Old
    /\ pre.vscode.files[Extensions_json] = Old
    /\ pre.biome = Old
    /\ vscode.files[Settings_json] = "v1"
    /\ vscode.files[Extensions_json] = Old
    /\ biome = "v2"

\* C6: the exit status is 0 or 1; it is 0 exactly when the guard passed and
\* every step of the script completed, and then every destination holds its
\* source; it is 1 when the guard fails, a source directory or file is
\* missing, or a filesystem call fails.  A running process has no status.
C6_ExitStatus ==
    /\ ~Exited => exit_status = -1
    /\ Exited =>
        /\ exit_status \in {0, 1}
        /\ exit_status = 0 <=> (git /\ done = AllSteps)
        /\ exit_status = 0 <=> stderr = <<>>
        /\ exit_status = 0 =>
              /\ source_dir.exists /\ rules.exists /\ rules.files = Mirrored
              /\ script = ScriptSetup =>
                    /\ vscode.files[Settings_json] = dotSettings
                    /\ biome = dotBiome
        /\ (~git \/ ~source_dir.exists \/ fault) => exit_status = 1
        /\ (script = ScriptSetup /\ (~IsFile(dotSettings) \/ ~IsFile(dotBiome)
                                      \/ ~vscode.exists))
              => exit_status = 1
        /\ (\E n \in MdNames : source_dir.entries[n] = Dir) => exit_status = 1

C6_WitnessOk ==
    /\ Exited /\ exit_status = 0 /\ script = ScriptSetup /\ DestFiles = {A_md, B_md}

C6_WitnessFail ==
    /\ Exited /\ exit_status = 1 /\ fault /\ at = "copy_loop" /\ script = ScriptSync

\* C7: a diagnostic on stderr means the process has ended, with status 1; and
\* when the process ended inside the mirror's loop, every file copied before
\* the failure is in the destination with its source content and is counted,
\* no match the loop had not yet reached is there, the file whose copy failed
\* is absent, truncated or written, and nothing of the destination's pre-run
\* contents is back (old.md and c.txt are absent).
C7_CopyFailureAborts ==
    /\ stderr # <<>> => (Exited /\ exit_status = 1 /\ Len(stderr) = 1)
    /\ (Exited /\ at = "copy_loop" /\ "mirror" \notin done) =>
        /\ exit_status = 1
        /\ stderr \in {<<"CopyFailed">>, <<"SourceNotFound">>}
        /\ rules.exists
        /\ copied \subseteq MdNames
        /\ copied_files = Cardinality(copied)
        /\ \A n \in copied : rules.files[n] = source_dir.entries[n]
        /\ \A n \in pending : rules.files[n] = Absent
        /\ \A n \in DstNames \ MdNames : rules.files[n] = Absent
        /\ \A n \in MdNames \ (copied \cup pending) :
              rules.files[n] \in {Absent, Partial, source_dir.entries[n]}
        /\ Cardinality(MdNames \ (copied \cup pending)) <= 1 + Cardinality(
              {n \in MdNames : source_dir.entries[n] = Absent})
        /\ Reported(stdout) = -1

C7_Witness ==
    /\ Exited /\ at = "copy_loop" /\ "mirror" \notin done /\ exit_status = 1
    /\ fault
    /\ pre.rules.exists /\ pre.rules.files[Old_md] = Old /\ pre.rules.files[A_md] = Old
    /\ Cardinality(copied) = 1
    /\ \E n \in MdNames \ copied : rules.files[n] = Absent /\ source_dir.entries[n] \in Contents
    /\ rules.files[Old_md] = Absent

\* C8: in setup_typescript_repo.py the steps complete in the order mirror,
\* settings, biome; the process ends with status 0 only with all three done
\* and with status 1 at the first diagnostic; a step that was not reached
\* has changed nothing (biome.json is as before the run unless the biome copy
\* itself ran, .vscode likewise), and what the completed steps wrote is there
\* when the process ends.
C8_OrderAndAbort ==
    script = ScriptSetup =>
        /\ "vscode" \in done => "mirror" \in done
        /\ "biome" \in done => "vscode" \in done
        /\ pc = "copy_vscode_settings" => done = {"mirror"}
        /\ pc = "copy_biome_settings" => done = {"mirror", "vscode"}
        /\ stderr # <<>> => (Exited /\ exit_status = 1)
        /\ Exited => (exit_status = 0 <=> done = {"mirror", "vscode", "biome"})
        /\ Exited => at \in {"check_git_repo", "check_source", "replace_dest",
                             "copy_loop", "copy_vscode_settings", "copy_biome_settings"}
        /\ (Exited /\ exit_status = 1) =>
              /\ at = "copy_vscode_settings" => done = {"mirror"}
              /\ at = "copy_biome_settings" => done = {"mirror", "vscode"}
              /\ at \notin {"copy_vscode_settings", "copy_biome_settings"} => done = {}
        /\ ("vscode" \notin done /\ at # "copy_vscode_settings") => vscode = pre.vscode
        /\ ("biome" \notin done /\ at # "copy_biome_settings") => biome = pre.biome
        /\ "mirror" \in done => rules.files = Mirrored
        /\ "vscode" \in done =>
              /\ vscode.files[Settings_json] = dotSettings
              /\ vscode.files[Extensions_json] = pre.vscode.files[Extensions_json]
        /\ "biome" \in done => biome = dotBiome

C8_Witness ==
    /\ script = ScriptSetup /\ Exited /\ exit_status = 1
    /\ at = "copy_vscode_settings" /\ fault
    /\ done = {"mirror"} /\ DestFiles = {A_md, B_md}
    /\ pre.rules.files[Old_md] = Old
    /\ pre.biome = Old /\ biome = Old /\ dotBiome \in Contents

\* C9 (as claimed): in both scripts, once the mirror has succeeded, the number
\* of "Copied:" progress lines, the reported count and the number of files in
\* the destination are equal.
C9_ProgressEqualsCount ==
    "mirror" \in done =>
        /\ Cardinality(ProgressLines(stdout)) = Reported(stdout)
        /\ Reported(stdout) = Cardinality(DestFiles)

\* C10: copy_file never creates the destination's parent: .vscode exists
\* exactly if it did before the run, and when it did not, no file is in it,
\* the settings copy never completes and the run ends at that step with
\* status 1 (by the uncaught filesystem error when the source file is there,
\* by SourceNotFound when it is not).  With the source file missing, the
\* settings copy and the biome copy end the run with SourceNotFound and
\* status 1, and the destination file is as it was.
C10_NoParentCreated ==
    script = ScriptSetup =>
        /\ vscode.exists = pre.vscode.exists
        /\ ~pre.vscode.exists =>
              /\ "vscode" \notin done
              /\ pc # "copy_biome_settings"
              /\ \A n \in VscodeNames : vscode.files[n] = Absent
              /\ (Exited /\ "mirror" \in done) =>
                    /\ at = "copy_vscode_settings"
                    /\ exit_status = 1
                    /\ stderr = IF IsFile(dotSettings) THEN <<"Traceback">>
                                ELSE <<"SourceNotFound">>
        /\ (Exited /\ "mirror" \in done /\ ~IsFile(dotSettings)) =>
              /\ at = "copy_vscode_settings"
              /\ exit_status = 1
              /\ stderr = <<"SourceNotFound">>
              /\ vscode = pre.vscode
        /\ (Exited /\ "vscode" \in done /\ ~IsFile(dotBiome)) =>
              /\ at = "copy_biome_settings"
              /\ exit_status = 1
              /\ stderr = <<"SourceNotFound">>
              /\ biome = pre.biome

C10_WitnessNoParent ==
    /\ script = ScriptSetup /\ Exited /\ at = "copy_vscode_settings"
    /\ ~vscode.exists /\ IsFile(dotSettings) /\ stderr = <<"Traceback">>
    /\ exit_status = 1

C10_WitnessNoSource ==
    /\ script = ScriptSetup /\ Exited /\ at = "copy_vscode_settings"
    /\ vscode.exists /\ vscode.files[Settings_json] = Old /\ ~IsFile(dotSettings)
    /\ exit_status = 1
====
